---- MODULE Spec2Model ----
(***************************************************************************)
(* Model of blues/reporters.py and blues/utils.py (sgill2/ncmc).           *)
(*                                                                         *)
(* Six independent parts of the code are modelled, each with its own       *)
(* specification over the shared variable tuple:                           *)
(*   SpecReport  the three reporter classes (describeNextReport, report)   *)
(*   SpecConfig  ReporterConfig.makeReporters                              *)
(*   SpecLog     addLoggingLevel on the process-wide logging module        *)
(*   SpecTop     utils.atomIndexfromTop                                    *)
(*   SpecData    utils.get_data_filename                                   *)
(*   SpecMode    reporters._check_mode                                     *)
(* Python strings that are only compared are TLA+ strings; strings that    *)
(* are searched or concatenated are sequences of pieces.                   *)
(***************************************************************************)
EXTENDS Integers, Sequences, FiniteSets, TLC

VARIABLES
    reporter,      \* the reporter object (a record of its attributes), or None
    currentStep,   \* simulation.currentStep
    io,            \* calls made on the reporter's backing file / log, and the
                   \* start values it records, in order
    ret,           \* value returned (or exception raised) by the last call
    nReports,      \* report() calls that completed
    nFailed,       \* report() calls that raised
    cfgState,      \* ReporterConfig object and the outcome of makeReporters
    logState,      \* logging module, logger class, level registry, warnings
    topState,      \* atomIndexfromTop: arguments and result
    dataState,     \* get_data_filename: argument, file system and outcome
    modeState      \* _check_mode: arguments and outcome

vars == <<reporter, currentStep, io, ret, nReports, nFailed,
          cfgState, logState, topState, dataState, modeState>>

None == "None"

\* ---------------------------------------------------------------- bounds
MaxStep == 6
MaxInterval == 3
MaxReports == 2
MaxKeys == 3
MaxCalls == 2
MaxAtoms == 3

\* ------------------------------------------------------- small utilities
Range(s) == {s[i] : i \in 1..Len(s)}

\* Python truth value of a list
ListTruthy(l) == l # <<>>

\* =========================================================================
\*  Reporters: BLUESHDF5Reporter, BLUESStateDataReporter, NetCDF4Reporter
\* =========================================================================
\* frame_indices arguments handed to the constructors (one-based frames)
FrameChoices == {<<>>, <<6, 102>>, <<1>>, <<2, 6>>}

\* the list kept as given (the decrement left out)
StoreFrameIndices_AsGiven(frame_indices) == frame_indices

\* [x-1 for x in frame_indices], applied only to a non-empty list
StoreFrameIndices(frame_indices) ==
    IF ListTruthy(frame_indices)
    THEN [i \in 1..Len(frame_indices) |-> frame_indices[i] - 1]
    ELSE frame_indices

\* Option sets the constructors are called with.
HDF5Options ==
    { [coordinates |-> TRUE,  time |-> FALSE, cell |-> TRUE,
       potentialEnergy |-> FALSE, kineticEnergy |-> FALSE,
       temperature |-> FALSE, velocities |-> FALSE,
       protocolWork |-> TRUE, alchemicalLambda |-> TRUE,
       title |-> "NCMC Trajectory", parameters |-> None,
       environment |-> TRUE],
      [coordinates |-> TRUE,  time |-> TRUE, cell |-> FALSE,
       potentialEnergy |-> TRUE, kineticEnergy |-> FALSE,
       temperature |-> FALSE, velocities |-> TRUE,
       protocolWork |-> FALSE, alchemicalLambda |-> TRUE,
       title |-> "", parameters |-> "dict", environment |-> FALSE],
      [coordinates |-> FALSE, time |-> FALSE, cell |-> FALSE,
       potentialEnergy |-> FALSE, kineticEnergy |-> TRUE,
       temperature |-> TRUE, velocities |-> FALSE,
       protocolWork |-> FALSE, alchemicalLambda |-> FALSE,
       title |-> "NCMC Trajectory", parameters |-> None,
       environment |-> TRUE] }

\* file is the logger (or file-like object) the reporter writes to; out_flush
\* tells whether that object has a flush method.
StateOptions ==
    { [title |-> "md",   potentialEnergy |-> FALSE, temperature |-> FALSE,
       volume |-> FALSE, out_flush |-> FALSE],
      [title |-> "ncmc", potentialEnergy |-> TRUE,  temperature |-> TRUE,
       volume |-> TRUE, out_flush |-> TRUE] }

NetCDFOpt(c, v, f, w, l) ==
    [crds |-> c, vels |-> v, frcs |-> f, protocolWork |-> w,
     alchemicalLambda |-> l]

NetCDFOptions ==
    { NetCDFOpt(TRUE, FALSE, FALSE, FALSE, FALSE),
      NetCDFOpt(TRUE, TRUE, TRUE, TRUE, TRUE),
      NetCDFOpt(TRUE, FALSE, FALSE, TRUE, FALSE),
      NetCDFOpt(TRUE, TRUE, FALSE, FALSE, TRUE),
      NetCDFOpt(FALSE, TRUE, FALSE, TRUE, FALSE),
      NetCDFOpt(FALSE, FALSE, TRUE, FALSE, TRUE),
      NetCDFOpt(FALSE, FALSE, FALSE, FALSE, FALSE),
      NetCDFOpt(FALSE, FALSE, FALSE, TRUE, TRUE) }

\* BLUESHDF5Reporter.__init__
HDF5Init(reportInterval, frame_indices, o) ==
    [variant |-> "hdf5",
     reportInterval |-> reportInterval,
     coordinates |-> o.coordinates, time |-> o.time, cell |-> o.cell,
     potentialEnergy |-> o.potentialEnergy,
     kineticEnergy |-> o.kineticEnergy,
     temperature |-> o.temperature, velocities |-> o.velocities,
     needEnergy |-> (o.potentialEnergy \/ o.kineticEnergy \/ o.temperature),
     protocolWork |-> o.protocolWork,
     alchemicalLambda |-> o.alchemicalLambda,
     title |-> o.title, parameters |-> o.parameters,
     environment |-> o.environment,
     is_intialized |-> FALSE,
     frame_indices_arg |-> frame_indices,
     frame_indices |-> StoreFrameIndices(frame_indices)]

\* BLUESStateDataReporter.__init__
StateInit(reportInterval, frame_indices, o) ==
    [variant |-> "state",
     reportInterval |-> reportInterval,
     title |-> o.title,
     needsPositions |-> FALSE, needsVelocities |-> FALSE,
     needsForces |-> FALSE,
     needEnergy |-> (o.potentialEnergy \/ o.temperature),
     volume |-> o.volume,
     out_flush |-> o.out_flush,
     hasInitialized |-> FALSE,
     frame_indices_arg |-> frame_indices,
     frame_indices |-> StoreFrameIndices(frame_indices)]

\* NetCDF4Reporter.__init__
NetCDFInit(reportInterval, frame_indices, o) ==
    [variant |-> "netcdf",
     reportInterval |-> reportInterval,
     crds |-> o.crds, vels |-> o.vels, frcs |-> o.frcs,
     protocolWork |-> o.protocolWork,
     alchemicalLambda |-> o.alchemicalLambda,
     out |-> None,
     uses_pbc |-> "unset",
     frame_indices_arg |-> frame_indices,
     frame_indices |-> StoreFrameIndices(frame_indices)]

\* steps taken as the remainder itself
DescribeSteps_Remainder(self, step) ==
    IF ~ListTruthy(self.frame_indices)
    THEN step % self.reportInterval
    ELSE (IF step \in Range(self.frame_indices) THEN 1 ELSE -1)

\* The steps value computed by all three describeNextReport methods
DescribeSteps(self, step) ==
    LET forced == IF ListTruthy(self.frame_indices)
                  THEN (IF step \in Range(self.frame_indices) THEN 1 ELSE -1)
                  ELSE None
    IN  IF ~ListTruthy(self.frame_indices)
        THEN LET steps_left == step % self.reportInterval
             IN  self.reportInterval - steps_left
        ELSE forced

HDF5DescribeNextReport(self, step) ==
    <<DescribeSteps(self, step), self.coordinates, self.velocities, FALSE,
      self.needEnergy>>

StateDescribeNextReport(self, step) ==
    <<DescribeSteps(self, step), self.needsPositions, self.needsVelocities,
      self.needsForces, self.needEnergy>>

\* nothing asked for at a step where no forced report is due
NetCDFDescribeNextReport_OnlyWhenDue(self, step) ==
    LET steps == DescribeSteps(self, step)
    IN  <<steps, steps # -1 /\ self.crds, steps # -1 /\ self.vels,
          steps # -1 /\ self.frcs, FALSE>>

NetCDFDescribeNextReport(self, step) ==
    <<DescribeSteps(self, step), self.crds, self.vels, self.frcs, FALSE>>

describeNextReport(self, step) ==
    CASE self.variant = "hdf5"   -> HDF5DescribeNextReport(self, step)
      [] self.variant = "state"  -> StateDescribeNextReport(self, step)
      [] self.variant = "netcdf" -> NetCDFDescribeNextReport(self, step)

\* One call on the backing file or log: the method and its keyword arguments
Ev(op, args) == [op |-> op, args |-> args]

\* What a call leaves behind: the reporter, the calls it made on its file,
\* and the exception it raised (None when it returned)
Outcome(self, events, raised) ==
    [self |-> self, events |-> events, raised |-> raised]

\* Where a collaborator (state, integrator, topology, file) may raise
Faults == {"none", "initialize", "getTime", "check", "read", "open", "write"}

\* ------------------------------------------- BLUESHDF5Reporter.report
\* hasattr(self._traj_file, 'flush'): the trajectory file is an instance of
\* the backend class BLUESHDF5TrajectoryFile (blues.formats), which exposes
\* write and flush
TrajFileHasFlush == TRUE

\* the record left unflushed
HDF5Flush_Skipped(self) == <<>>

\* if hasattr(self._traj_file, 'flush'): self._traj_file.flush()
HDF5Flush(self) == IF TrajFileHasFlush THEN <<Ev("flush", {})>> ELSE <<>>

HDF5Kwargs(self) ==
    (IF self.coordinates THEN {"coordinates"} ELSE {})
    \cup (IF self.time THEN {"time"} ELSE {})
    \cup (IF self.cell THEN {"cell_lengths", "cell_angles"} ELSE {})
    \cup (IF self.potentialEnergy THEN {"potentialEnergy"} ELSE {})
    \cup (IF self.kineticEnergy THEN {"kineticEnergy"} ELSE {})
    \cup (IF self.temperature THEN {"temperature"} ELSE {})
    \cup (IF self.velocities THEN {"velocities"} ELSE {})
    \cup (IF self.protocolWork THEN {"protocolWork"} ELSE {})
    \cup (IF self.alchemicalLambda THEN {"alchemicalLambda"} ELSE {})
    \cup (IF self.title # "" THEN {"title"} ELSE {})
    \cup (IF self.parameters # None THEN {"parameters"} ELSE {})
    \cup (IF self.environment THEN {"environment"} ELSE {})

HDF5Report(self, fault) ==
    IF ~self.is_intialized /\ fault = "initialize"
    THEN Outcome(self, <<>>, "Error")
    ELSE
      LET setup == IF ~self.is_intialized
                   THEN <<Ev("_initialize", {})>> ELSE <<>>
          s1 == [self EXCEPT !.is_intialized = TRUE]
      IN  IF fault \in {"check", "read"}
          THEN Outcome(s1, setup, "Error")
          ELSE IF fault = "write"
          THEN Outcome(s1, setup, "Error")
          ELSE Outcome(s1,
                       setup \o <<Ev("write", HDF5Kwargs(self))>>
                             \o HDF5Flush(self),
                       None)

\* -------------------------------------- BLUESStateDataReporter.report
\* the flush left out
StateFlush_Never(self) == <<>>

\* try: self._out.flush()  except AttributeError: pass
StateFlush(self) == IF self.out_flush THEN <<Ev("flush", {})>> ELSE <<>>

StateReport(self, fault) ==
    IF ~self.hasInitialized /\ fault = "initialize"
    THEN Outcome(self, <<>>, "Error")
    ELSE
      LET header == IF ~self.hasInitialized
                    THEN <<Ev("log.report", {"#headers"})>> \o StateFlush(self)
                    ELSE <<>>
          started == IF ~self.hasInitialized
                     THEN <<Ev("record_start",
                               {"initialClockTime", "initialSimulationTime",
                                "initialSteps"})>>
                     ELSE <<>>
          s1 == [self EXCEPT !.hasInitialized = TRUE]
      IN  IF ~self.hasInitialized /\ fault = "getTime"
          THEN Outcome(self, header, "Error")
          ELSE IF fault \in {"check", "read", "write"}
          THEN Outcome(s1, header \o started, "Error")
          ELSE Outcome(s1,
                       header \o started
                              \o <<Ev("log.report", {self.title})>>
                              \o StateFlush(self),
                       None)

\* ---------------------------------------------- NetCDF4Reporter.report
NetCDFReads(self) ==
    self.crds \/ self.vels \/ self.frcs \/ self.protocolWork
    \/ self.alchemicalLambda

\* the local variable atom is bound by one of the if/elif branches
AtomBound(self) == self.crds \/ self.vels \/ self.frcs

\* velocities appended ahead of the coordinates
NetCDFAppends_VelocitiesFirst(self) ==
    (IF self.uses_pbc = TRUE
     THEN <<Ev("add_cell_lengths_angles", {})>> ELSE <<>>)
    \o (IF self.vels THEN <<Ev("add_velocities", {})>> ELSE <<>>)
    \o (IF self.crds THEN <<Ev("add_coordinates", {})>> ELSE <<>>)
    \o (IF self.frcs THEN <<Ev("add_forces", {})>> ELSE <<>>)
    \o (IF self.protocolWork THEN <<Ev("add_protocolWork", {})>> ELSE <<>>)
    \o (IF self.alchemicalLambda
        THEN <<Ev("add_alchemicalLambda", {})>> ELSE <<>>)

NetCDFAppends(self) ==
    (IF self.uses_pbc = TRUE
     THEN <<Ev("add_cell_lengths_angles", {})>> ELSE <<>>)
    \o (IF self.crds THEN <<Ev("add_coordinates", {})>> ELSE <<>>)
    \o (IF self.vels THEN <<Ev("add_velocities", {})>> ELSE <<>>)
    \o (IF self.frcs THEN <<Ev("add_forces", {})>> ELSE <<>>)
    \o (IF self.protocolWork THEN <<Ev("add_protocolWork", {})>> ELSE <<>>)
    \o (IF self.alchemicalLambda
        THEN <<Ev("add_alchemicalLambda", {})>> ELSE <<>>)

\* the file opened on every call
NetCDFFirstFrame_Always(self) == TRUE

\* the first call taken for the first frame
NetCDFFirstFrame_FirstCallOnly(self) == nReports + nFailed = 0

\* if self._out is None:  (this must be the first frame)
NetCDFFirstFrame(self) == self.out = None

NetCDFReport(self, fault, hasBox) ==
    IF fault = "read" /\ NetCDFReads(self)
    THEN Outcome(self, <<>>, "Error")
    ELSE
      LET first == NetCDFFirstFrame(self)
          s1 == IF first THEN [self EXCEPT !.uses_pbc = hasBox] ELSE self
          s2 == IF first THEN [s1 EXCEPT !.out = "NetCDF4Traj"] ELSE s1
          opened == IF first
                    THEN <<Ev("open_new",
                              (IF s1.uses_pbc = TRUE THEN {"box"} ELSE {})
                              \cup (IF self.crds THEN {"crds"} ELSE {})
                              \cup (IF self.vels THEN {"vels"} ELSE {})
                              \cup (IF self.frcs THEN {"frcs"} ELSE {})
                              \cup (IF self.protocolWork
                                    THEN {"protocolWork"} ELSE {})
                              \cup (IF self.alchemicalLambda
                                    THEN {"alchemicalLambda"} ELSE {}))>>
                    ELSE <<>>
      IN  IF first /\ ~AtomBound(self)
          THEN Outcome(s1, <<>>, "UnboundLocalError")
          ELSE IF first /\ fault = "open"
          THEN Outcome(s1, <<>>, "Error")
          ELSE IF fault = "write"
          THEN Outcome(s2, opened \o NetCDFAppends(s2), "Error")
          ELSE Outcome(s2,
                       opened \o NetCDFAppends(s2) \o <<Ev("add_time", {})>>,
                       None)

\* the faults that name a call the given report() actually makes
FaultApplies(self, fault) ==
    CASE self.variant = "hdf5" ->
           fault \in {"none", "check", "read", "write"}
           \/ (fault = "initialize" /\ ~self.is_intialized)
      [] self.variant = "state" ->
           fault \in {"none", "check", "read", "write"}
           \/ (fault \in {"initialize", "getTime"} /\ ~self.hasInitialized)
      [] self.variant = "netcdf" ->
           fault \in {"none", "write"}
           \/ (fault = "read" /\ NetCDFReads(self))
           \/ (fault = "open" /\ self.out = None /\ AtomBound(self))

report(self, fault, hasBox) ==
    CASE self.variant = "hdf5"   -> HDF5Report(self, fault)
      [] self.variant = "state"  -> StateReport(self, fault)
      [] self.variant = "netcdf" -> NetCDFReport(self, fault, hasBox)

\* ------------------------------------------------------------- actions
OthersIdle ==
    /\ cfgState = None
    /\ logState = None
    /\ topState = None
    /\ dataState = None
    /\ modeState = None

OthersUnchanged ==
    UNCHANGED <<cfgState, logState, topState, dataState, modeState>>

Returned(op, value) == [op |-> op, value |-> value, raised |-> None]
Raised(op, exc) == [op |-> op, value |-> None, raised |-> exc]

InitReport ==
    /\ \E n \in 1..MaxInterval, fi \in FrameChoices :
         \/ \E o \in HDF5Options : reporter = HDF5Init(n, fi, o)
         \/ \E o \in StateOptions : reporter = StateInit(n, fi, o)
         \/ \E o \in NetCDFOptions : reporter = NetCDFInit(n, fi, o)
    /\ currentStep = 0
    /\ io = <<>>
    /\ ret = Returned("__init__", None)
    /\ nReports = 0
    /\ nFailed = 0
    /\ OthersIdle

\* simulation.step(1)
Step ==
    /\ currentStep < MaxStep
    /\ currentStep' = currentStep + 1
    /\ ret' = Returned("step", None)
    /\ UNCHANGED <<reporter, io, nReports, nFailed>>
    /\ OthersUnchanged

DescribeNextReport ==
    /\ ret' = Returned("describeNextReport",
                       describeNextReport(reporter, currentStep))
    /\ UNCHANGED <<reporter, currentStep, io, nReports, nFailed>>
    /\ OthersUnchanged

Report ==
    /\ nReports + nFailed < MaxReports
    /\ \E fault \in Faults, hasBox \in BOOLEAN :
         /\ FaultApplies(reporter, fault)
         /\ LET r == report(reporter, fault, hasBox)
            IN  /\ reporter' = r.self
                /\ io' = io \o r.events
                /\ IF r.raised = None
                   THEN /\ ret' = Returned("report", None)
                        /\ nReports' = nReports + 1
                        /\ nFailed' = nFailed
                   ELSE /\ ret' = Raised("report", r.raised)
                        /\ nReports' = nReports
                        /\ nFailed' = nFailed + 1
    /\ UNCHANGED currentStep
    /\ OthersUnchanged

NextReport == Step \/ DescribeNextReport \/ Report

SpecReport == InitReport /\ [][NextReport]_vars

\* ------------------------------------------------- claims on reporters
Initialized(self) ==
    CASE self.variant = "hdf5"   -> self.is_intialized
      [] self.variant = "state"  -> self.hasInitialized
      [] self.variant = "netcdf" -> self.out # None

IsSetup(e) ==
    \/ e.op \in {"_initialize", "open_new"}
    \/ (e.op = "log.report" /\ e.args = {"#headers"})

RECURSIVE SetupCount(_)
SetupCount(events) ==
    IF events = <<>> THEN 0
    ELSE (IF IsSetup(Head(events)) THEN 1 ELSE 0) + SetupCount(Tail(events))

\* C1: a reporter of any of the three classes built without frame indices
\* answers describeNextReport at step s with interval n by
\* steps = n - (s mod n), and that value lies in 1..n.
C1_FixedCadence ==
    (ret.op = "describeNextReport" /\ reporter.frame_indices_arg = <<>>)
    => LET n == reporter.reportInterval
           s == currentStep
       IN  /\ ret.value[1] = n - (s % n)
           /\ ret.value[1] \in 1..n

C1_Witness ==
    /\ ret.op = "describeNextReport"
    /\ reporter.variant = "netcdf"
    /\ reporter.frame_indices_arg = <<>>
    /\ reporter.reportInterval = 3
    /\ currentStep = 4
    /\ ret.value[1] = 2

\* C2: a reporter built with a non-empty frame_indices list stores every
\* entry decremented by one, and describeNextReport answers steps = 1
\* exactly at the steps equal to a stored entry and -1 at every other step,
\* whatever the report interval.
C2_ForcedFrames ==
    reporter.frame_indices_arg # <<>>
    => /\ Len(reporter.frame_indices) = Len(reporter.frame_indices_arg)
       /\ \A i \in 1..Len(reporter.frame_indices_arg) :
            reporter.frame_indices[i] = reporter.frame_indices_arg[i] - 1
       /\ ret.op = "describeNextReport"
          => /\ ret.value[1] \in {1, -1}
             /\ ret.value[1] = 1
                <=> \E i \in 1..Len(reporter.frame_indices_arg) :
                      currentStep = reporter.frame_indices_arg[i] - 1

C2_Witness ==
    /\ ret.op = "describeNextReport"
    /\ reporter.frame_indices_arg = <<6, 102>>
    /\ reporter.frame_indices = <<5, 101>>
    /\ currentStep = 5
    /\ ret.value[1] = 1

\* C6: while no report call has raised, a reporter is Initialized exactly
\* when a report call has completed, its one-time setup (_initialize, the
\* header line, open_new) has been done once by the first call and not at
\* construction; and a reporter that is Initialized stays so.
C6_InitializedOnce ==
    /\ [](/\ nReports >= 1 => Initialized(reporter)
          /\ nFailed = 0
             => /\ Initialized(reporter) <=> nReports >= 1
                /\ SetupCount(io) = (IF nReports >= 1 THEN 1 ELSE 0)
                /\ nReports >= 1 => IsSetup(io[1]))
    /\ [][Initialized(reporter) => Initialized(reporter')]_vars

C6_Witness ==
    /\ reporter.variant = "netcdf"
    /\ nReports = 2
    /\ nFailed = 0
    /\ io[1].op = "open_new"
    /\ SetupCount(io) = 1

\* ------------------------------------------- claims on report emission
\* the methods called, in order
Ops(events) == [i \in 1..Len(events) |-> events[i].op]

\* the calls a step adds to io
NewOps == Ops(SubSeq(io', Len(io) + 1, Len(io')))

\* C11: every completed NetCDF4Reporter.report call appends, in this order,
\* cell lengths/angles, coordinates, velocities, forces, protocol work,
\* alchemical lambda and the time: each of the first six once if its flag
\* (uses_pbc, crds, vels, frcs, protocolWork, alchemicalLambda) is set and
\* not at all otherwise, the time once, last, on every call.
C11_AppendOrder ==
    [][(reporter.variant = "netcdf" /\ nReports' = nReports + 1)
       => LET r == reporter'
              Wanted(op) ==
                  CASE op = "add_cell_lengths_angles" -> r.uses_pbc = TRUE
                    [] op = "add_coordinates"         -> r.crds
                    [] op = "add_velocities"          -> r.vels
                    [] op = "add_forces"              -> r.frcs
                    [] op = "add_protocolWork"        -> r.protocolWork
                    [] op = "add_alchemicalLambda"    -> r.alchemicalLambda
                    [] op = "add_time"                -> TRUE
          IN  SelectSeq(NewOps, LAMBDA op : op # "open_new")
                = SelectSeq(<<"add_cell_lengths_angles", "add_coordinates",
                              "add_velocities", "add_forces",
                              "add_protocolWork", "add_alchemicalLambda",
                              "add_time">>, Wanted)]_vars

C11_Witness ==
    /\ reporter.variant = "netcdf"
    /\ nReports = 2
    /\ nFailed = 0
    /\ Ops(io) = <<"open_new",
                   "add_cell_lengths_angles", "add_coordinates",
                   "add_velocities", "add_forces", "add_protocolWork",
                   "add_alchemicalLambda", "add_time",
                   "add_cell_lengths_angles", "add_coordinates",
                   "add_velocities", "add_forces", "add_protocolWork",
                   "add_alchemicalLambda", "add_time">>

\* positions in io of the calls of one method
Positions(op) == {i \in 1..Len(io) : io[i].op = op}

IsHeader(e) == e.op = "log.report" /\ e.args = {"#headers"}
IsTitledLine(e) == e.op = "log.report" /\ e.args = {reporter.title}

RECURSIVE Repeat(_, _)
Repeat(seq, k) == IF k = 0 THEN <<>> ELSE seq \o Repeat(seq, k - 1)

C13_WriteThenFlush ==
    reporter.variant = "hdf5"
    => /\ Cardinality(Positions("write")) = nReports
       /\ Cardinality(Positions("flush")) = Cardinality(Positions("write"))
       /\ \A i \in Positions("write") :
            i < Len(io) /\ io[i + 1].op = "flush"

C13_Witness ==
    /\ reporter.variant = "hdf5"
    /\ nReports = 2
    /\ nFailed = 0
    /\ Ops(io) = <<"_initialize", "write", "flush", "write", "flush">>

\* the four want-positions/velocities/forces/energy flags of a return value
Flags(value) == <<value[2], value[3], value[4], value[5]>>

\* C14: the four flags describeNextReport returns are fixed at construction:
\* no step of the system (a simulation step, a describeNextReport call, a
\* report call, completed or not) changes the flags the reporter returns,
\* they are the same at the current step as at step 0, in forced-index mode
\* as in interval mode, and a describeNextReport call changes nothing of the
\* reporter nor of its file.
C14_StaticFlags ==
    [][/\ \A s \in {0, currentStep, currentStep'} :
            Flags(describeNextReport(reporter', s))
              = Flags(describeNextReport(reporter, 0))
       /\ ret'.op = "describeNextReport"
          => /\ reporter' = reporter
             /\ io' = io
             /\ Flags(ret'.value) = Flags(describeNextReport(reporter, 0))]_vars

C14_Witness ==
    /\ ret.op = "describeNextReport"
    /\ reporter.variant = "netcdf"
    /\ reporter.frame_indices_arg = <<6, 102>>
    /\ currentStep = 4
    /\ nReports = 1
    /\ ret.value = <<-1, TRUE, TRUE, TRUE, FALSE>>

\* C15: a NetCDF4Reporter.report call that fails before the trajectory file
\* is open (a read of the state or integrator raises, open_new raises, or
\* none of crds/vels/frcs is set so that atom is never bound) leaves the
\* reporter without a file and appends nothing; the next report call goes
\* through the lazy open again; the reporter holds a file exactly when
\* open_new has been called, once, before anything was appended.
C15_FailureBeforeOpen ==
    /\ [](reporter.variant = "netcdf"
          => /\ reporter.out = None => io = <<>>
             /\ reporter.out # None
                => io # <<>> /\ Positions("open_new") = {1}
             /\ ~(reporter.crds \/ reporter.vels \/ reporter.frcs)
                => reporter.out = None /\ nReports = 0)
    /\ [][(/\ reporter.variant = "netcdf"
           /\ reporter.out = None
           /\ nReports' + nFailed' = nReports + nFailed + 1)
          => \/ /\ nFailed' = nFailed + 1
                /\ reporter'.out = None
                /\ io' = io
             \/ /\ reporter'.out # None
                /\ NewOps[1] = "open_new"]_vars

C15_Witness ==
    /\ reporter.variant = "netcdf"
    /\ nFailed = 1
    /\ nReports = 1
    /\ ret.op = "report"
    /\ ret.raised = None
    /\ reporter.out # None
    /\ Ops(io) = <<"open_new", "add_coordinates", "add_time">>

\* =========================================================================
\*  ReporterConfig
\* =========================================================================
\* Option values are written as their YAML scalar text.  An options mapping
\* is a function from the option names it holds to their values.
OptionChoices ==
    { "reportInterval" :> "250",
      ("outfname" :> "custom") @@ ("reportInterval" :> "1000"),
      "outfname" :> "alt" }

\* order taken from the mapping itself
BlockOrder_Insertion(cfg) ==
    SelectSeq([i \in 1..Len(cfg) |-> cfg[i].key],
              LAMBDA k : k \in {"state", "traj_netcdf", "restart",
                                "progress", "stream"})

\* keys makeReporters looks for, in the order of its if-blocks
BlockOrder(cfg) == <<"state", "traj_netcdf", "restart", "progress", "stream">>

\* keys a configuration may hold: the five recognized ones and one that
\* makeReporters does not look for
ConfigKeys ==
    {"state", "traj_netcdf", "restart", "progress", "stream", "traj_dcd"}

\* 'key' in self._cfg.keys()
CfgHas(cfg, key) == \E i \in 1..Len(cfg) : cfg[i].key = key

\* self._cfg[key]
CfgGet(cfg, key) == cfg[CHOOSE i \in 1..Len(cfg) : cfg[i].key = key].opts

\* the dicts ReporterConfig is built from: insertion-ordered, keys distinct
RECURSIVE Configs(_)
Configs(n) ==
    IF n = 0 THEN {<<>>}
    ELSE LET shorter == Configs(n - 1)
         IN  shorter \cup
             { Append(c, [key |-> k, opts |-> o]) :
                 c \in {d \in shorter : Len(d) = n - 1},
                 k \in ConfigKeys, o \in OptionChoices }

DistinctKeys(cfg) ==
    \A i, j \in 1..Len(cfg) : cfg[i].key = cfg[j].key => i = j

\* ReporterConfig.__init__
ReporterConfigInit(outfname, reporter_config) ==
    [outfname |-> outfname, cfg |-> reporter_config,
     trajectory_interval |-> "0"]

ReporterClass(key) ==
    CASE key = "state"       -> "parmed.StateDataReporter"
      [] key = "traj_netcdf" -> "NetCDF4Reporter"
      [] key = "restart"     -> "parmed.RestartReporter"
      [] key = "progress"    -> "parmed.ProgressReporter"
      [] key = "stream"      -> "BLUESStateDataReporter"

Suffix(key) ==
    CASE key = "state"       -> ".ene"
      [] key = "traj_netcdf" -> ".nc"
      [] key = "restart"     -> ".rst7"
      [] key = "progress"    -> ".prog"

\* the if 'outfname' in self._cfg[key] ... else ... of each block
ResolveOutfname(self, key) ==
    IF "outfname" \in DOMAIN CfgGet(self.cfg, key)
    THEN CfgGet(self.cfg, key)["outfname"]
    ELSE self.outfname

\* first positional argument of the constructor: outfname + suffix, or the
\* logger for the stream reporter
FileArgument(self, key) ==
    IF key = "stream" THEN <<"logger">>
    ELSE <<ResolveOutfname(self, key), Suffix(key)>>

\* keyword arguments of the constructor call: **self._cfg[key]
\* (preceded by netcdf=True for the restart reporter)
KeywordArguments(self, key) ==
    IF key = "restart"
    THEN ("netcdf" :> "True") @@ CfgGet(self.cfg, key)
    ELSE CfgGet(self.cfg, key)

\* keyword parameters of the constructors defined in reporters.py
NetCDF4ReporterParams ==
    {"reportInterval", "frame_indices", "crds", "vels", "frcs",
     "protocolWork", "alchemicalLambda"}

BLUESStateDataReporterParams ==
    {"reportInterval", "frame_indices", "title", "step", "time",
     "potentialEnergy", "kineticEnergy", "totalEnergy", "temperature",
     "volume", "density", "progress", "remainingTime", "speed",
     "elapsedTime", "separator", "systemMass", "totalSteps"}

\* Python's binding of a call's keywords: TypeError for a keyword the
\* constructor has no parameter for, or for a keyword given twice.  The
\* parmed constructors are library code: their own failures are the input
\* extFail (the class whose constructor raises, or None).
ConstructorRaises(self, key, extFail) ==
    CASE key = "traj_netcdf" ->
           IF DOMAIN CfgGet(self.cfg, key) \subseteq NetCDF4ReporterParams
           THEN None ELSE "TypeError"
      [] key = "stream" ->
           IF DOMAIN CfgGet(self.cfg, key)
                \subseteq BLUESStateDataReporterParams
           THEN None ELSE "TypeError"
      [] key = "restart" ->
           IF "netcdf" \in DOMAIN CfgGet(self.cfg, key) THEN "TypeError"
           ELSE IF extFail = ReporterClass(key) THEN "LibraryError"
           ELSE None
      [] OTHER ->
           IF extFail = ReporterClass(key) THEN "LibraryError" ELSE None

\* One if-block of makeReporters, run on the state left by the blocks before
\* it: run is [self, Reporters, calls, raised].
MakeBlock(run, key, extFail) ==
    IF run.raised # None \/ ~CfgHas(run.self.cfg, key) THEN run
    ELSE
      LET self == run.self
          self1 == IF key = "traj_netcdf"
                      /\ "reportInterval" \in DOMAIN CfgGet(self.cfg, key)
                   THEN [self EXCEPT !.trajectory_interval =
                                        CfgGet(self.cfg, key)["reportInterval"]]
                   ELSE self
          call == [class |-> ReporterClass(key), key |-> key,
                   file |-> FileArgument(self, key),
                   kwargs |-> KeywordArguments(self, key)]
          exc == ConstructorRaises(self, key, extFail)
      IN  [self |-> self1,
           Reporters |-> IF exc = None THEN Append(run.Reporters, call)
                         ELSE run.Reporters,
           calls |-> Append(run.calls, call),
           raised |-> exc]

RECURSIVE MakeBlocks(_, _, _)
MakeBlocks(run, keys, extFail) ==
    IF keys = <<>> THEN run
    ELSE MakeBlocks(MakeBlock(run, Head(keys), extFail), Tail(keys), extFail)

\* ReporterConfig.makeReporters
makeReporters(self, extFail) ==
    MakeBlocks([self |-> self, Reporters |-> <<>>, calls |-> <<>>,
                raised |-> None],
               BlockOrder(self.cfg), extFail)

ConfigIdle ==
    /\ reporter = None
    /\ currentStep = 0
    /\ io = <<>>
    /\ ret = None
    /\ nReports = 0
    /\ nFailed = 0
    /\ logState = None
    /\ topState = None
    /\ dataState = None
    /\ modeState = None

InitConfig ==
    /\ \E outfname \in {"run"}, cfg \in Configs(MaxKeys) :
         /\ DistinctKeys(cfg)
         /\ cfgState = [pc |-> "built",
                        self |-> ReporterConfigInit(outfname, cfg),
                        Reporters |-> <<>>, calls |-> <<>>, raised |-> None]
    /\ ConfigIdle

MakeReporters ==
    /\ cfgState.pc = "built"
    /\ \E extFail \in {None, "parmed.StateDataReporter",
                       "parmed.RestartReporter", "parmed.ProgressReporter"} :
         LET run == makeReporters(cfgState.self, extFail)
         IN  cfgState' = [pc |-> "done", self |-> run.self,
                          Reporters |-> run.Reporters, calls |-> run.calls,
                          raised |-> run.raised]
    /\ UNCHANGED <<reporter, currentStep, io, ret, nReports, nFailed,
                   logState, topState, dataState, modeState>>

NextConfig == MakeReporters

SpecConfig == InitConfig /\ [][NextConfig]_vars

\* ---------------------------------------------- claims on ReporterConfig
FileKeys == {"state", "traj_netcdf", "restart", "progress"}

ExpectedPath(self, key) ==
    <<(IF "outfname" \in DOMAIN CfgGet(self.cfg, key)
       THEN CfgGet(self.cfg, key)["outfname"] ELSE self.outfname),
      (CASE key = "state" -> ".ene" [] key = "traj_netcdf" -> ".nc"
         [] key = "restart" -> ".rst7" [] key = "progress" -> ".prog")>>

\* C3: once makeReporters has run (the libraries not failing), every
\* file-writing key of the configuration has its reporter in the result,
\* writing to the key's own outfname plus the suffix of its kind when the key
\* gives one, and to the top-level prefix plus that suffix otherwise.
C3_OutputPaths ==
    (cfgState.pc = "done" /\ cfgState.raised # "LibraryError")
    => \A key \in FileKeys :
         CfgHas(cfgState.self.cfg, key)
         => \E i \in 1..Len(cfgState.Reporters) :
              /\ cfgState.Reporters[i].key = key
              /\ cfgState.Reporters[i].file
                   = ExpectedPath(cfgState.self, key)

\* C4: the keyword arguments of every constructor call makeReporters makes
\* are the key's options without outfname, each with its value unchanged.
C4_ForwardedOptions ==
    cfgState.pc = "done"
    => \A i \in 1..Len(cfgState.calls) :
         LET opts == CfgGet(cfgState.self.cfg, cfgState.calls[i].key)
             kwargs == cfgState.calls[i].kwargs
         IN  /\ "outfname" \notin DOMAIN kwargs
             /\ \A name \in DOMAIN opts \ {"outfname"} :
                  name \in DOMAIN kwargs /\ kwargs[name] = opts[name]

RecognizedInFixedOrder(cfg) ==
    SelectSeq(<<"state", "traj_netcdf", "restart", "progress", "stream">>,
              LAMBDA k : \E i \in 1..Len(cfg) : cfg[i].key = k)

\* C5: the list makeReporters returns holds one reporter for each of the keys
\* state, traj_netcdf, restart, progress, stream that the configuration
\* holds, in that order whatever the order of the mapping; other keys add
\* nothing and raise nothing; a configuration with state alone (no outfname
\* of its own) gives one reporter, on <prefix>.ene.
C5_FixedOrder ==
    cfgState.pc = "done"
    => LET cfg == cfgState.self.cfg
           out == cfgState.Reporters
       IN  /\ cfgState.raised = None
              => /\ [i \in 1..Len(out) |-> out[i].key]
                      = RecognizedInFixedOrder(cfg)
                 /\ (Len(cfg) = 1 /\ cfg[1].key = "state"
                     /\ "outfname" \notin DOMAIN cfg[1].opts)
                    => /\ Len(out) = 1
                       /\ out[1].class = "parmed.StateDataReporter"
                       /\ out[1].file = <<cfgState.self.outfname, ".ene">>
           /\ cfgState.raised # None
              => /\ Len(cfgState.calls) >= 1
                 /\ cfgState.calls[Len(cfgState.calls)].key
                      \in Range(RecognizedInFixedOrder(cfg))

C5_Witness ==
    /\ cfgState.pc = "done"
    /\ cfgState.raised = None
    /\ Len(cfgState.self.cfg) = 3
    /\ cfgState.self.cfg[1].key = "stream"
    /\ cfgState.self.cfg[2].key = "traj_dcd"
    /\ cfgState.self.cfg[3].key = "state"
    /\ Len(cfgState.Reporters) = 2
    /\ cfgState.Reporters[1].key = "state"
    /\ cfgState.Reporters[2].key = "stream"

\* =========================================================================
\*  addLoggingLevel
\* =========================================================================
\* Attribute values of the logging module and of the logger class
IntValue(n) == [kind |-> "int", num |-> n]
Builtin == [kind |-> "builtin", num |-> 0]
Absent == [kind |-> "absent", num |-> 0]
LogForLevel(levelNum) == [kind |-> "logForLevel", num |-> levelNum]
LogToRoot(levelNum) == [kind |-> "logToRoot", num |-> levelNum]

LevelNames == {"DEBUG", "TRACE", "REPORT"}
MethodNames == {"debug", "trace", "report", "log"}
AttrNames == LevelNames \cup MethodNames
LevelNums == {5, 10, 25}

\* str.lower on the level names
Lower(name) ==
    CASE name = "DEBUG"  -> "debug"
      [] name = "TRACE"  -> "trace"
      [] name = "REPORT" -> "report"
      [] OTHER           -> name

\* the logging module and logging.Logger as imported
LoggingModule ==
    [a \in AttrNames |->
       CASE a = "DEBUG" -> IntValue(10)
         [] a \in {"debug", "log"} -> Builtin
         [] OTHER -> Absent]

LoggerClass ==
    [a \in AttrNames |-> IF a \in {"debug", "log"} THEN Builtin ELSE Absent]

LevelToName == [n \in LevelNums |-> IF n = 10 THEN "DEBUG" ELSE None]

hasattr(obj, name) == obj[name] # Absent

setattr(obj, name, value) == [obj EXCEPT ![name] = value]

\* addLoggingLevel(levelName, levelNum, methodName) on the process state
\* L = [logging, loggerClass, levelToName, warnings]
addLoggingLevel(L, levelName, levelNum, methodNameArg) ==
    LET methodName == IF methodNameArg = None
                      THEN Lower(levelName) ELSE methodNameArg
        w1 == IF hasattr(L.logging, levelName)
              THEN <<<<levelName, "already defined in logging module">>>>
              ELSE <<>>
        w2 == IF hasattr(L.logging, methodName)
              THEN <<<<methodName, "already defined in logging module">>>>
              ELSE <<>>
        w3 == IF hasattr(L.loggerClass, methodName)
              THEN <<<<methodName, "already defined in logger class">>>>
              ELSE <<>>
        logging1 == setattr(L.logging, levelName, IntValue(levelNum))
        loggerClass1 == setattr(L.loggerClass, methodName,
                                LogForLevel(levelNum))
        logging2 == setattr(logging1, methodName, LogToRoot(levelNum))
    IN  [logging |-> logging2,
         loggerClass |-> loggerClass1,
         levelToName |-> [L.levelToName EXCEPT ![levelNum] = levelName],
         warnings |-> w1 \o w2 \o w3,
         raised |-> None]

LogIdle ==
    /\ reporter = None
    /\ currentStep = 0
    /\ io = <<>>
    /\ ret = None
    /\ nReports = 0
    /\ nFailed = 0
    /\ cfgState = None
    /\ topState = None
    /\ dataState = None
    /\ modeState = None

InitLog ==
    /\ logState = [logging |-> LoggingModule, loggerClass |-> LoggerClass,
                   levelToName |-> LevelToName,
                   calls |-> 0,
                   call |-> None, before |-> None, warnings |-> <<>>,
                   raised |-> None]
    /\ LogIdle

AddLoggingLevel ==
    /\ logState.calls < MaxCalls
    /\ \E levelName \in LevelNames, levelNum \in LevelNums,
          methodName \in MethodNames \cup {None} :
         LET r == addLoggingLevel(logState, levelName, levelNum, methodName)
         IN  logState' =
               [logging |-> r.logging, loggerClass |-> r.loggerClass,
                levelToName |-> r.levelToName,
                calls |-> logState.calls + 1,
                call |-> [levelName |-> levelName, levelNum |-> levelNum,
                          methodName |-> IF methodName = None
                                         THEN Lower(levelName)
                                         ELSE methodName],
                before |-> [logging |-> logState.logging,
                            loggerClass |-> logState.loggerClass],
                warnings |-> r.warnings,
                raised |-> r.raised]
    /\ UNCHANGED <<reporter, currentStep, io, ret, nReports, nFailed,
                   cfgState, topState, dataState, modeState>>

NextLog == AddLoggingLevel

SpecLog == InitLog /\ [][NextLog]_vars

\* C7: after addLoggingLevel is called with a level name or method name that
\* the logging module or the logger class already has, a warning has been
\* emitted, nothing was raised, and every attribute that existed under one
\* of those names holds the value it held before the call.
C7_NoClobber ==
    logState.calls >= 1
    => LET c == logState.call
           b == logState.before
           conflict == \/ hasattr(b.logging, c.levelName)
                       \/ hasattr(b.logging, c.methodName)
                       \/ hasattr(b.loggerClass, c.methodName)
       IN  conflict
           => /\ logState.warnings # <<>>
              /\ logState.raised = None
              /\ \A nm \in {c.levelName, c.methodName} :
                   hasattr(b.logging, nm)
                   => logState.logging[nm] = b.logging[nm]
              /\ hasattr(b.loggerClass, c.methodName)
                 => logState.loggerClass[c.methodName]
                      = b.loggerClass[c.methodName]

\* =========================================================================
\*  utils.atomIndexfromTop
\* =========================================================================
\* Residue names and the resname argument are sequences of characters.
ResidueNames ==
    { <<"L", "I", "G">>, <<"L", "I", "G", "2">>, <<"H", "O", "H">>,
      <<"A", "L", "I">>, <<"G", "L", "I", "G">> }

ResnameArgs ==
    { <<"L", "I", "G">>, <<"H", "O", "H">>, <<"L", "I">>, <<"G", "2">>,
      <<"N", "A">> }

\* a == b in place of a in b
StrContains_Equal(a, b) == a = b

\* Python's a in b for strings
StrContains(a, b) ==
    \E k \in 0..(Len(b) - Len(a)) : SubSeq(b, k + 1, k + Len(a)) = a

\* topology.atoms(): the atoms in order, atom.index counting from 0
RECURSIVE Topologies(_)
Topologies(n) ==
    IF n = 0 THEN {<<>>}
    ELSE LET shorter == Topologies(n - 1)
         IN  shorter \cup
             { Append(t, [index |-> Len(t), residue |-> r]) :
                 t \in {u \in shorter : Len(u) = n - 1}, r \in ResidueNames }

RECURSIVE ScanAtoms(_, _, _)
ScanAtoms(resname, atoms, lig_atoms) ==
    IF atoms = <<>> THEN lig_atoms
    ELSE ScanAtoms(resname, Tail(atoms),
                   IF StrContains(resname, Head(atoms).residue)
                   THEN Append(lig_atoms, Head(atoms).index)
                   ELSE lig_atoms)

atomIndexfromTop(resname, topology) == ScanAtoms(resname, topology, <<>>)

TopIdle ==
    /\ reporter = None
    /\ currentStep = 0
    /\ io = <<>>
    /\ ret = None
    /\ nReports = 0
    /\ nFailed = 0
    /\ cfgState = None
    /\ logState = None
    /\ dataState = None
    /\ modeState = None

InitTop ==
    /\ \E resname \in ResnameArgs, topology \in Topologies(MaxAtoms) :
         topState = [pc |-> "call", resname |-> resname,
                     topology |-> topology, lig_atoms |-> <<>>]
    /\ TopIdle

AtomIndexfromTop ==
    /\ topState.pc = "call"
    /\ topState' = [topState EXCEPT
                      !.pc = "done",
                      !.lig_atoms = atomIndexfromTop(topState.resname,
                                                     topState.topology)]
    /\ UNCHANGED <<reporter, currentStep, io, ret, nReports, nFailed,
                   cfgState, logState, dataState, modeState>>

NextTop == AtomIndexfromTop

SpecTop == InitTop /\ [][NextTop]_vars

\* resname occurs in name: name = prefix . resname . suffix
Occurs(resname, name) ==
    \E i \in 0..Len(name), j \in 1..(Len(name) + 1) :
        /\ j = i + Len(resname) + 1
        /\ name = SubSeq(name, 1, i) \o resname \o SubSeq(name, j, Len(name))

\* C9: atomIndexfromTop returns the indices of exactly the atoms whose
\* residue name contains resname, each once, in the order of the scan; the
\* result is empty when no residue name contains resname.
C9_SubstringMatch ==
    topState.pc = "done"
    => LET top == topState.topology
           out == topState.lig_atoms
           hits == {p \in 1..Len(top) : Occurs(topState.resname, top[p].residue)}
       IN  /\ Len(out) = Cardinality(hits)
           /\ \A p \in hits : \E q \in 1..Len(out) : out[q] = top[p].index
           /\ \A q \in 1..Len(out) :
                \E p \in hits : out[q] = top[p].index
           /\ \A q \in 1..(Len(out) - 1) : out[q] < out[q + 1]
           /\ hits = {} => out = <<>>

C9_Witness ==
    /\ topState.pc = "done"
    /\ topState.resname = <<"L", "I", "G">>
    /\ Len(topState.topology) = 3
    /\ topState.topology[1].residue = <<"H", "O", "H">>
    /\ topState.topology[2].residue = <<"L", "I", "G", "2">>
    /\ topState.topology[3].residue = <<"G", "L", "I", "G">>
    /\ topState.lig_atoms = <<1, 2>>

\* =========================================================================
\*  utils.get_data_filename
\* =========================================================================
\* names bound in the namespace of utils.py: its one import and its two defs
UtilsGlobals == {"print_function", "atomIndexfromTop", "get_data_filename"}

RelativePaths == {"a.pdb", "b.xml", "c.prmtop", "d.inpcrd"}

\* resource_filename('blues', os.path.join('data', relative_path))
ResourceFilename(relative_path) == <<"blues", "data", relative_path>>

\* get_data_filename(relative_path) with exists the paths present on disk
get_data_filename(relative_path, exists) ==
    IF "os" \notin UtilsGlobals
    THEN [returned |-> None, raised |-> "NameError", names |-> "os"]
    ELSE LET fn == ResourceFilename(relative_path)
         IN  IF fn \notin exists
             THEN [returned |-> None, raised |-> "ValueError", names |-> fn]
             ELSE [returned |-> fn, raised |-> None, names |-> None]

DataIdle ==
    /\ reporter = None
    /\ currentStep = 0
    /\ io = <<>>
    /\ ret = None
    /\ nReports = 0
    /\ nFailed = 0
    /\ cfgState = None
    /\ logState = None
    /\ topState = None
    /\ modeState = None

InitData ==
    /\ \E relative_path \in RelativePaths,
          exists \in SUBSET {ResourceFilename(q) : q \in RelativePaths} :
         dataState = [pc |-> "call", relative_path |-> relative_path,
                      exists |-> exists, result |-> None]
    /\ DataIdle

GetDataFilename ==
    /\ dataState.pc = "call"
    /\ dataState' = [dataState EXCEPT
                       !.pc = "done",
                       !.result = get_data_filename(dataState.relative_path,
                                                    dataState.exists)]
    /\ UNCHANGED <<reporter, currentStep, io, ret, nReports, nFailed,
                   cfgState, logState, topState, modeState>>

NextData == GetDataFilename

SpecData == InitData /\ [][NextData]_vars

\* C8: get_data_filename returns the resolved path when it exists on disk,
\* and raises ValueError naming the resolved path when it does not; nothing
\* else is raised.
C8_ResolveOrValueError ==
    dataState.pc = "done"
    => LET fn == <<"blues", "data", dataState.relative_path>>
           r == dataState.result
       IN  IF fn \in dataState.exists
           THEN r.raised = None /\ r.returned = fn
           ELSE r.raised = "ValueError" /\ r.names = fn

\* =========================================================================
\*  reporters._check_mode
\* =========================================================================
FileModes == {"r", "w", "a", "r+"}

\* _check_mode(m, modes): the exception raised (None when it returns) and
\* the mode its message is formatted with
check_mode(m, modes) ==
    IF m \notin modes
    THEN [raised |-> "ValueError", message_mode |-> m]
    ELSE [raised |-> None, message_mode |-> None]

ModeIdle ==
    /\ reporter = None
    /\ currentStep = 0
    /\ io = <<>>
    /\ ret = None
    /\ nReports = 0
    /\ nFailed = 0
    /\ cfgState = None
    /\ logState = None
    /\ topState = None
    /\ dataState = None

InitMode ==
    /\ \E m \in FileModes, modes \in (SUBSET FileModes) \ {{}} :
         modeState = [pc |-> "call", m |-> m, modes |-> modes,
                      result |-> None]
    /\ ModeIdle

CheckMode ==
    /\ modeState.pc = "call"
    /\ modeState' = [modeState EXCEPT
                       !.pc = "done",
                       !.result = check_mode(modeState.m, modeState.modes)]
    /\ UNCHANGED <<reporter, currentStep, io, ret, nReports, nFailed,
                   cfgState, logState, topState, dataState>>

NextMode == CheckMode

SpecMode == InitMode /\ [][NextMode]_vars

\* C10: _check_mode raises ValueError when the file's mode is not among the
\* allowed modes, with a message naming a mode the operation allows, and
\* raises nothing when the mode is among them.
C10_NamesRequiredMode ==
    modeState.pc = "done"
    => IF modeState.m \in modeState.modes
       THEN modeState.result.raised = None
       ELSE /\ modeState.result.raised = "ValueError"
            /\ modeState.result.message_mode \in modeState.modes

====
